---- MODULE Spec2Model ----
(***************************************************************************)
(* keystonemiddleware/audit/_api.py : OpenStackAuditApi.                   *)
(*                                                                         *)
(* Python strings are modelled as sequences of one-character strings, so   *)
(* that slicing, endswith, rfind, split, lower and concatenation are       *)
(* computed character by character as the code computes them.              *)
(* An optional value (None or a value) is a sequence of length 0 or 1.     *)
(***************************************************************************)
EXTENDS Naturals, Sequences, FiniteSets, TLC

VARIABLES pc, py2, cfg_file, fs, MAP, req, action, target, exc, log

vars == <<pc, py2, cfg_file, fs, MAP, req, action, target, exc, log>>

(***************************************************************************)
(* Bounds of the model.                                                    *)
(***************************************************************************)
\* longest audit map file, in lines
MaxLines == 3
\* longest request path, in pieces of PathPieces
MaxPieces == 3
\* longest service catalog, in entries
MaxCatalog == 3
\* most keys of a JSON object in a request body
MaxKeys == 2

(***************************************************************************)
(* Python values.                                                          *)
(***************************************************************************)
None == <<>>

Some(v) == <<v>>

IsNone(o) == Len(o) = 0

TheValue(o) == o[1]

\* dict.get(key, default)
Get(d, key, default) == IF key \in DOMAIN d THEN d[key] ELSE default

EmptyDict == <<>>

\* d.update(e): the keys of e override those of d
Update(d, e) == [k \in (DOMAIN d) \cup (DOMAIN e) |-> IF k \in DOMAIN e THEN e[k] ELSE d[k]]

(***************************************************************************)
(* Python string operations.                                               *)
(***************************************************************************)
UPPER == <<"A","B","C","D","E","F","G","H","I","J","K","L","M",
           "N","O","P","Q","R","S","T","U","V","W","X","Y","Z">>

LOWER == <<"a","b","c","d","e","f","g","h","i","j","k","l","m",
           "n","o","p","q","r","s","t","u","v","w","x","y","z">>

LowerChar(c) == IF \E i \in 1..26 : UPPER[i] = c
                THEN LOWER[CHOOSE i \in 1..26 : UPPER[i] = c]
                ELSE c

\* s.lower()
Lower(s) == [i \in 1..Len(s) |-> LowerChar(s[i])]

\* s.endswith(suffix)
EndsWith(s, suffix) == /\ Len(suffix) <= Len(s)
                       /\ SubSeq(s, Len(s) - Len(suffix) + 1, Len(s)) = suffix

\* s.startswith(prefix)
StartsWith(s, prefix) == /\ Len(prefix) <= Len(s)
                         /\ SubSeq(s, 1, Len(prefix)) = prefix

\* s.rfind(ch) + 1 : the 1-based place of the last ch in s, 0 when there is none
RFind1(s, ch) == IF \E i \in 1..Len(s) : s[i] = ch
                 THEN CHOOSE i \in 1..Len(s) : s[i] = ch /\ \A j \in (i+1)..Len(s) : s[j] # ch
                 ELSE 0

\* s.find(ch) + 1 : the 1-based place of the first ch in s, 0 when there is none
Find1(s, ch) == IF \E i \in 1..Len(s) : s[i] = ch
                THEN CHOOSE i \in 1..Len(s) : s[i] = ch /\ \A j \in 1..(i-1) : s[j] # ch
                ELSE 0

\* s[n:]
From(s, n) == SubSeq(s, n + 1, Len(s))

RECURSIVE SplitFrom(_, _, _)
\* the segments of s from place i on, cur being the segment read so far
SplitFrom(s, i, cur) == IF i > Len(s) THEN <<cur>>
                        ELSE IF s[i] = "/" THEN <<cur>> \o SplitFrom(s, i + 1, <<>>)
                        ELSE SplitFrom(s, i + 1, Append(cur, s[i]))

\* re.split('/', s)
Split(s) == SplitFrom(s, 1, <<>>)

(***************************************************************************)
(* String constants of the code and of pycadf.cadftaxonomy.                *)
(***************************************************************************)
JSON_SUFFIX == <<".","j","s","o","n">>

STR_ACTION == <<"a","c","t","i","o","n">>

ACTION_CREATE == <<"c","r","e","a","t","e">>

ACTION_READ == <<"r","e","a","d">>

ACTION_UPDATE == <<"u","p","d","a","t","e">>

ACTION_DELETE == <<"d","e","l","e","t","e">>

ACTION_LIST == <<"r","e","a","d","/","l","i","s","t">>

UNKNOWN == <<"u","n","k","n","o","w","n">>

TARGET_ENDPOINT_TYPE == <<"t","a","r","g","e","t","_","e","n","d","p","o","i","n","t","_","t","y","p","e">>

M_GET == <<"G","E","T">>

M_POST == <<"P","O","S","T">>

M_PUT == <<"P","U","T">>

M_PATCH == <<"P","A","T","C","H">>

M_DELETE == <<"D","E","L","E","T","E">>

M_HEAD == <<"H","E","A","D">>

(***************************************************************************)
(* The audit map file and configparser.                                    *)
(* A file is a sequence of lines; a line is a section header, an option    *)
(* "key = value", or a line that is neither ("bad").                       *)
(***************************************************************************)
SecLine(n) == [t |-> "sec", name |-> n, k |-> <<>>, v |-> <<>>]

OptLine(key, val) == [t |-> "opt", name |-> "", k |-> key, v |-> val]

BadLine == [t |-> "bad", name |-> "", k |-> <<>>, v |-> <<>>]

DEFAULTSECT == "DEFAULT"

ParserStart == [cur |-> None, defaults |-> EmptyDict, sections |-> EmptyDict,
                added |-> {}, errors |-> FALSE, raised |-> "none"]

\* RawConfigParser._read on one line; strict (Python 3) refuses duplicates
ReadLine(st, line, strict) ==
    IF line.t = "sec" THEN
        IF line.name \in DOMAIN st.sections THEN
            IF strict /\ <<line.name>> \in st.added
            THEN [st EXCEPT !.raised = "DuplicateSectionError"]
            ELSE [st EXCEPT !.cur = Some(line.name), !.added = @ \cup {<<line.name>>}]
        ELSE IF line.name = DEFAULTSECT
        THEN [st EXCEPT !.cur = Some(DEFAULTSECT)]
        ELSE [st EXCEPT !.cur = Some(line.name),
                        !.sections = Update(@, [n \in {line.name} |-> EmptyDict]),
                        !.added = @ \cup {<<line.name>>}]
    ELSE IF IsNone(st.cur) THEN [st EXCEPT !.raised = "MissingSectionHeaderError"]
    ELSE IF line.t = "opt" THEN
        LET sect == TheValue(st.cur)
            optname == Lower(line.k)
        IN  IF strict /\ <<sect, optname>> \in st.added
            THEN [st EXCEPT !.raised = "DuplicateOptionError"]
            ELSE IF sect = DEFAULTSECT
            THEN [st EXCEPT !.defaults = Update(@, [o \in {optname} |-> line.v]),
                            !.added = @ \cup {<<sect, optname>>}]
            ELSE [st EXCEPT !.sections[sect] = Update(@, [o \in {optname} |-> line.v]),
                            !.added = @ \cup {<<sect, optname>>}]
    ELSE [st EXCEPT !.errors = TRUE]

RECURSIVE ReadLines(_, _, _, _)
ReadLines(st, lines, i, strict) ==
    IF st.raised # "none" THEN st
    ELSE IF i > Len(lines)
    THEN IF st.errors THEN [st EXCEPT !.raised = "ParsingError"] ELSE st
    ELSE ReadLines(ReadLine(st, lines[i], strict), lines, i + 1, strict)

\* map_conf.read_file(open(cfg_file)) on an existing file
read_file(lines, isPy2) == ReadLines(ParserStart, lines, 1, ~isPy2)

\* the configparser errors that are ParsingError or a subclass of it
IsParsingError(e) == e \in {"ParsingError", "MissingSectionHeaderError"}

\* map_conf.get('DEFAULT', 'target_endpoint_type'); NoOptionError leaves None
get_default_target_endpoint_type(conf) ==
    IF Lower(TARGET_ENDPOINT_TYPE) \in DOMAIN conf.defaults
    THEN Some(conf.defaults[Lower(TARGET_ENDPOINT_TYPE)])
    ELSE None

\* dict(map_conf.items(section)); NoSectionError leaves {}
items(conf, section) ==
    IF section \in DOMAIN conf.sections
    THEN Update(conf.defaults, conf.sections[section])
    ELSE EmptyDict

AuditMap(kw, custom, endpoints, default_type) ==
    [path_kw |-> kw, custom_actions |-> custom, service_endpoints |-> endpoints,
     default_target_endpoint_type |-> default_type]

EmptyMap == AuditMap(EmptyDict, EmptyDict, EmptyDict, None)

\* the outcome of OpenStackAuditApi.__init__(cfg_file, log)
InitOutcome(file, disk, isPy2) ==
    IF IsNone(file) THEN [exc |-> "none", map |-> EmptyMap]
    ELSE IF ~disk.exists THEN [exc |-> "IOError", map |-> EmptyMap]
    ELSE LET conf == read_file(disk.lines, isPy2)
         IN  IF IsParsingError(conf.raised)
             THEN [exc |-> "PycadfAuditApiConfigError", map |-> EmptyMap]
             ELSE IF conf.raised # "none"
             THEN [exc |-> conf.raised, map |-> EmptyMap]
             ELSE [exc |-> "none",
                   map |-> AuditMap(items(conf, "path_keywords"),
                                    items(conf, "custom_actions"),
                                    items(conf, "service_endpoints"),
                                    get_default_target_endpoint_type(conf))]

(***************************************************************************)
(* Inputs of the construction.                                             *)
(***************************************************************************)
STR_S == <<"s">>

STR_R == <<"r">>

STR_C == <<"c">>

STR_I == <<"i">>

STR_SVC == <<"s","v","c">>

STR_BOOT == <<"b","o","o","t">>

STR_K == <<"k">>

STR_Z == <<"z">>

ConfLines == {SecLine("DEFAULT"), SecLine("custom_actions"), SecLine("path_keywords"),
              SecLine("service_endpoints"),
              OptLine(TARGET_ENDPOINT_TYPE, STR_C), OptLine(<<"S">>, STR_R),
              OptLine(STR_S, STR_K), BadLine}

RECURSIVE SeqsUpTo(_, _)
\* the sequences of at most n elements of S
SeqsUpTo(S, n) == IF n = 0 THEN {<<>>}
                  ELSE LET T == SeqsUpTo(S, n - 1)
                       IN  T \cup {Append(t, x) : t \in {u \in T : Len(u) = n - 1}, x \in S}

ConfFiles == SeqsUpTo(ConfLines, MaxLines)

MAP_FILE == <<"a","p","i","_","a","u","d","i","t","_","m","a","p",".","c","o","n","f">>

NoFile == [exists |-> FALSE, lines |-> <<>>]

NoRequest == [method |-> <<>>, path |-> <<>>, body |-> [kind |-> "empty", keys |-> <<>>, truthy |-> FALSE],
              host_url |-> <<>>, environ |-> [kind |-> "absent", catalog |-> <<>>]]

NoTarget == [typeURI |-> <<>>, id |-> <<>>, name |-> <<>>, addresses |-> <<>>]

(***************************************************************************)
(* Construction.                                                           *)
(***************************************************************************)
InitConstruct ==
    /\ pc = "new"
    /\ py2 \in BOOLEAN
    /\ \/ cfg_file = None /\ fs = NoFile
       \/ cfg_file = Some(MAP_FILE) /\ fs = NoFile
       \/ cfg_file = Some(MAP_FILE) /\ \E f \in ConfFiles : fs = [exists |-> TRUE, lines |-> f]
    /\ MAP = EmptyMap
    /\ req = NoRequest
    /\ action = <<>>
    /\ target = NoTarget
    /\ exc = "none"
    /\ log = <<>>

\* OpenStackAuditApi.__init__
Construct ==
    /\ pc = "new"
    /\ LET out == InitOutcome(cfg_file, fs, py2)
       IN  /\ exc' = out.exc
           /\ MAP' = out.map
           /\ pc' = IF out.exc = "none" THEN "ready" ELSE "raised"
    /\ UNCHANGED <<py2, cfg_file, fs, req, action, target, log>>

NextConstruct == Construct

SpecInit == InitConstruct /\ [][NextConstruct]_vars

(***************************************************************************)
(* Requests.  req.path is a string; req.json (webob) decodes the body:     *)
(* json.loads raises ValueError on an empty or non-JSON body, and gives    *)
(* the decoded value otherwise.  A body is described by the Python value   *)
(* it decodes to: kind is the value's type, keys the keys of a dict in     *)
(* iteration order, truthy the value's truth.                              *)
(***************************************************************************)
Body(kind, keys, truthy) == [kind |-> kind, keys |-> keys, truthy |-> truthy]

EmptyBody == Body("empty", <<>>, FALSE)

KEY_REBOOT == <<"r","e","b","o","o","t">>

KEY_RESIZE == <<"r","e","s","i","z","e">>

KEY_PAUSE == <<"p","a","u","s","e">>

BodyKeys == {KEY_REBOOT, KEY_RESIZE, KEY_PAUSE}

\* a dict has no key twice
NoRepeat(s) == \A i, j \in 1..Len(s) : i # j => s[i] # s[j]

Bodies == {EmptyBody, Body("invalid", <<>>, FALSE)}
          \cup {Body("dict", ks, Len(ks) > 0) : ks \in {s \in SeqsUpTo(BodyKeys, MaxKeys) : NoRepeat(s)}}
          \cup {Body("list", <<>>, b) : b \in BOOLEAN}
          \cup {Body("int", <<>>, TRUE), Body("str", <<>>, TRUE), Body("NoneType", <<>>, FALSE)}

\* req.json
json(body) == IF body.kind \in {"empty", "invalid"}
              THEN [exc |-> "ValueError", value |-> body]
              ELSE [exc |-> "none", value |-> body]

Methods == {M_GET, M_POST, M_PUT, M_PATCH, M_DELETE, M_HEAD,
            <<"O","P","T","I","O","N","S">>, <<"g","e","t">>, <<"p","o","s","t">>}

PathPieces == {<<"/">>, STR_S, STR_ACTION, JSON_SUFFIX}

RECURSIVE Concat(_)
Concat(ss) == IF Len(ss) = 0 THEN <<>> ELSE Head(ss) \o Concat(Tail(ss))

Paths == {Concat(ps) : ps \in SeqsUpTo(PathPieces, MaxPieces)}

(***************************************************************************)
(* get_action.                                                             *)
(***************************************************************************)
\* OpenStackAuditApi._clean_path
_clean_path(value) == IF EndsWith(value, JSON_SUFFIX)
                      THEN SubSeq(value, 1, Len(value) - 5)
                      ELSE value

\* strip_slash without the test for a trailing '/': the path is used as it is
strip_slash_never(path) == path

\* path = req.path[:-1] if req.path.endswith('/') else req.path
strip_slash(path) == IF EndsWith(path, <<"/">>)
                     THEN SubSeq(path, 1, Len(path) - 1)
                     ELSE path

\* url_ending = self._clean_path(path[path.rfind('/') + 1:])
url_ending(path) == LET p == strip_slash(path)
                    IN  _clean_path(From(p, RFind1(p, "/")))

Return(v) == [exc |-> "none", value |-> v]

Raise(e) == [exc |-> e, value |-> <<>>]

\* the POST branch for a path ending in 'action': the try block of lines 142-149
body_action(body) ==
    LET j == json(body)
    IN  IF j.exc = "ValueError" THEN Return(ACTION_CREATE)
        ELSE IF j.value.truthy
        THEN IF j.value.kind = "dict"
             THEN Return(ACTION_UPDATE \o <<"/">> \o j.value.keys[1])
             ELSE Raise("AttributeError")
        ELSE Return(ACTION_CREATE)

\* method_action without the PATCH case: PATCH falls through to unknown
method_action_no_patch(map, r, ending) ==
    IF r.method = M_POST THEN
        IF ending = STR_ACTION THEN body_action(r.body)
        ELSE IF ending \notin DOMAIN map.path_kw THEN Return(ACTION_UPDATE)
        ELSE Return(ACTION_CREATE)
    ELSE IF r.method = M_GET THEN
        IF ending \in DOMAIN map.path_kw THEN Return(ACTION_LIST)
        ELSE Return(ACTION_READ)
    ELSE IF r.method = M_PUT THEN Return(ACTION_UPDATE)
    ELSE IF r.method = M_DELETE THEN Return(ACTION_DELETE)
    ELSE IF r.method = M_HEAD THEN Return(ACTION_READ)
    ELSE Return(UNKNOWN)

\* the branches on req.method, lines 140-166
method_action(map, r, ending) ==
    IF r.method = M_POST THEN
        IF ending = STR_ACTION THEN body_action(r.body)
        ELSE IF ending \notin DOMAIN map.path_kw THEN Return(ACTION_UPDATE)
        ELSE Return(ACTION_CREATE)
    ELSE IF r.method = M_GET THEN
        IF ending \in DOMAIN map.path_kw THEN Return(ACTION_LIST)
        ELSE Return(ACTION_READ)
    ELSE IF r.method = M_PUT \/ r.method = M_PATCH THEN Return(ACTION_UPDATE)
    ELSE IF r.method = M_DELETE THEN Return(ACTION_DELETE)
    ELSE IF r.method = M_HEAD THEN Return(ACTION_READ)
    ELSE Return(UNKNOWN)

\* get_action_outcome with the two custom_actions tests in the other order
get_action_outcome_segment_first(map, r) ==
    LET ending == url_ending(r.path)
        key == ending \o <<"/">> \o Lower(r.method)
    IN  IF ending \in DOMAIN map.custom_actions THEN Return(map.custom_actions[ending])
        ELSE IF key \in DOMAIN map.custom_actions THEN Return(map.custom_actions[key])
        ELSE method_action(map, r, ending)

\* the outcome of get_action(req): the action returned or the exception raised
get_action_outcome(map, r) ==
    LET ending == url_ending(r.path)
        key == ending \o <<"/">> \o Lower(r.method)
    IN  IF key \in DOMAIN map.custom_actions THEN Return(map.custom_actions[key])
        ELSE IF ending \in DOMAIN map.custom_actions THEN Return(map.custom_actions[ending])
        ELSE method_action(map, r, ending)

(***************************************************************************)
(* The audit maps the requests are served under: those the constructor     *)
(* builds from these files.                                                *)
(***************************************************************************)
CF_EMPTY == <<>>

CF_KW == <<SecLine("path_keywords"), OptLine(STR_S, STR_R),
           SecLine("service_endpoints"), OptLine(STR_C, STR_SVC)>>

CF_CUSTOM == <<SecLine("custom_actions"), OptLine(STR_S \o <<"/">> \o <<"p","o","s","t">>, STR_BOOT),
               OptLine(STR_S, STR_K), OptLine(STR_ACTION \o <<"/">> \o <<"g","e","t">>, STR_Z),
               SecLine("path_keywords"), OptLine(STR_S, STR_R)>>

CF_FULL == <<SecLine("DEFAULT"), OptLine(TARGET_ENDPOINT_TYPE, STR_C),
             SecLine("custom_actions"), OptLine(STR_ACTION, STR_Z),
             SecLine("path_keywords"), OptLine(STR_S, STR_R), OptLine(STR_ACTION, <<"a">>),
             SecLine("service_endpoints"), OptLine(STR_C, STR_SVC), OptLine(STR_I, UNKNOWN)>>

SampleFiles == {CF_EMPTY, CF_KW, CF_CUSTOM, CF_FULL}

Configs == {InitOutcome(Some(MAP_FILE), [exists |-> TRUE, lines |-> f], FALSE).map : f \in SampleFiles}

HOST_A == <<"h",":","/","/","a">>

ActionRequests ==
    {[method |-> m, path |-> p, body |-> b, host_url |-> HOST_A,
      environ |-> [kind |-> "absent", catalog |-> <<>>]] :
        m \in Methods, p \in Paths, b \in Bodies}

InitAction ==
    /\ pc = "ready"
    /\ py2 = FALSE
    /\ cfg_file = Some(MAP_FILE)
    /\ \E f \in SampleFiles :
          /\ fs = [exists |-> TRUE, lines |-> f]
          /\ MAP = InitOutcome(cfg_file, fs, py2).map
    /\ req \in {r \in ActionRequests : r.method # M_POST => r.body = EmptyBody}
    /\ action = <<>>
    /\ target = NoTarget
    /\ exc = "none"
    /\ log = <<>>

\* OpenStackAuditApi.get_action
get_action ==
    /\ pc = "ready"
    /\ LET out == get_action_outcome(MAP, req)
       IN  /\ exc' = out.exc
           /\ action' = out.value
           /\ pc' = IF out.exc = "none" THEN "got_action" ELSE "raised"
    /\ UNCHANGED <<py2, cfg_file, fs, MAP, req, target, log>>

NextAction == get_action

SpecAction == InitAction /\ [][NextAction]_vars

(***************************************************************************)
(* Service catalog.  A catalog entry is a dict with 'type', 'name' and a   *)
(* non-empty list 'endpoints'; an endpoint is a dict whose keys are among  *)
(* id, adminURL, internalURL, publicURL.  The request carries the catalog  *)
(* in environ['HTTP_X_SERVICE_CATALOG'] as the text of a Python literal.   *)
(***************************************************************************)
Entry(type, name, endpoint) == [type |-> type, name |-> name, endpoints |-> <<endpoint>>]

URL_A_V == <<"h",":","/","/","a","/","v">>

URL_A_P == <<"H",":","/","/","a","?","p">>

URL_B_V == <<"h",":","/","/","b","/","v">>

URL_B8 == <<"h",":","/","/","b",":","8","/","v">>

URL_X == <<"h",":","/","/","x">>

HOST_B == <<"h",":","/","/","b">>

E1 == Entry(STR_C, <<"n","1">>,
            [k \in {"id", "adminURL", "internalURL", "publicURL"} |->
                CASE k = "id" -> <<"i","1">>
                  [] k = "adminURL" -> URL_A_V
                  [] k = "internalURL" -> URL_X
                  [] k = "publicURL" -> URL_A_P])

E2 == Entry(STR_C, <<"n","2">>, [k \in {"adminURL"} |-> URL_B8])

E3 == Entry(STR_I, <<"n","3">>,
            [k \in {"id", "publicURL"} |-> IF k = "id" THEN <<"i","3">> ELSE URL_B_V])

E4 == Entry(STR_C, <<"n","4">>, EmptyDict)

E5 == Entry(STR_I, <<"n","5">>, [k \in {"adminURL", "internalURL"} |-> URL_A_V])

Entries == {E1, E2, E3, E4, E5}

Catalogs == SeqsUpTo(Entries, MaxCatalog)

Environ(kind, catalog) == [kind |-> kind, catalog |-> catalog]

\* the values of environ['HTTP_X_SERVICE_CATALOG']: no such key, the text of a
\* list, the empty text, text that is no Python expression, and an expression
\* that is no literal
Environs == {Environ("absent", <<>>), Environ("empty_string", <<>>),
             Environ("malformed", <<>>), Environ("non_literal", <<>>)}
            \cup {Environ("list", c) : c \in Catalogs}

\* ast.literal_eval(req.environ['HTTP_X_SERVICE_CATALOG'])
literal_eval(environ) ==
    CASE environ.kind = "absent" -> Raise("KeyError")
      [] environ.kind \in {"empty_string", "malformed"} -> Raise("SyntaxError")
      [] environ.kind = "non_literal" -> Raise("ValueError")
      [] OTHER -> Return(environ.catalog)

Letters == {UPPER[i] : i \in 1..26} \cup {LOWER[i] : i \in 1..26}

SchemeChars == Letters \cup {"0","1","2","3","4","5","6","7","8","9","+","-","."}

\* urlsplit: what is left of url once its scheme is taken off
AfterScheme(url) ==
    LET i == Find1(url, ":")
    IN  IF i > 1 /\ url[1] \in Letters /\ \A j \in 1..(i-1) : url[j] \in SchemeChars
        THEN From(url, i)
        ELSE url

\* the first place of '/', '?' or '#' in s from place n on, Len(s) + 1 when none
NetlocEnd(s, n) ==
    IF \E i \in n..Len(s) : s[i] \in {"/", "?", "#"}
    THEN CHOOSE i \in n..Len(s) : /\ s[i] \in {"/", "?", "#"}
                                  /\ \A j \in n..(i-1) : s[j] \notin {"/", "?", "#"}
    ELSE Len(s) + 1

\* urlparse.urlparse(url).netloc
netloc(url) ==
    LET rest == AfterScheme(url)
    IN  IF StartsWith(rest, <<"/","/">>)
        THEN SubSeq(rest, 3, NetlocEnd(rest, 3) - 1)
        ELSE <<>>

(***************************************************************************)
(* get_target_resource.                                                    *)
(***************************************************************************)
Endpoint(name, url) == [name |-> name, url |-> url]

Service(type, name, id, admin_endp, private_endp, public_endp) ==
    [type |-> type, name |-> name, id |-> id, admin_endp |-> admin_endp,
     private_endp |-> private_endp, public_endp |-> public_endp]

\* _get_service_info with the id defaulting to unknown instead of the name
_get_service_info_id_unknown(map, endp) ==
    Service(Get(map.service_endpoints, endp.type, UNKNOWN),
            endp.name,
            Get(endp.endpoints[1], "id", UNKNOWN),
            Some(Endpoint("admin", Get(endp.endpoints[1], "adminURL", UNKNOWN))),
            Some(Endpoint("private", Get(endp.endpoints[1], "internalURL", UNKNOWN))),
            Some(Endpoint("public", Get(endp.endpoints[1], "publicURL", UNKNOWN))))

\* OpenStackAuditApi._get_service_info
_get_service_info(map, endp) ==
    Service(Get(map.service_endpoints, endp.type, UNKNOWN),
            endp.name,
            Get(endp.endpoints[1], "id", endp.name),
            Some(Endpoint("admin", Get(endp.endpoints[1], "adminURL", UNKNOWN))),
            Some(Endpoint("private", Get(endp.endpoints[1], "internalURL", UNKNOWN))),
            Some(Endpoint("public", Get(endp.endpoints[1], "publicURL", UNKNOWN))))

RECURSIVE typeURI_loop_raw_key(_, _, _, _, _)
\* typeURI_loop without the call of _clean_path on the key
typeURI_loop_raw_key(map, keys, i, prev_key, type_uri) ==
    IF i > Len(keys) THEN type_uri
    ELSE LET key == keys[i]
         IN  IF key \in DOMAIN map.path_kw
             THEN typeURI_loop_raw_key(map, keys, i + 1, Some(key), type_uri \o <<"/">> \o key)
             ELSE IF ~IsNone(prev_key) /\ TheValue(prev_key) \in DOMAIN map.path_kw
             THEN typeURI_loop_raw_key(map, keys, i + 1, Some(key),
                                       type_uri \o <<"/">> \o map.path_kw[TheValue(prev_key)])
             ELSE typeURI_loop_raw_key(map, keys, i + 1, Some(key), type_uri)

RECURSIVE typeURI_loop(_, _, _, _, _)
\* the for loop of _build_typeURI over keys from place i on
typeURI_loop(map, keys, i, prev_key, type_uri) ==
    IF i > Len(keys) THEN type_uri
    ELSE LET key == _clean_path(keys[i])
         IN  IF key \in DOMAIN map.path_kw
             THEN typeURI_loop(map, keys, i + 1, Some(key), type_uri \o <<"/">> \o key)
             ELSE IF ~IsNone(prev_key) /\ TheValue(prev_key) \in DOMAIN map.path_kw
             THEN typeURI_loop(map, keys, i + 1, Some(key),
                               type_uri \o <<"/">> \o map.path_kw[TheValue(prev_key)])
             ELSE typeURI_loop(map, keys, i + 1, Some(key), type_uri)

\* OpenStackAuditApi._build_typeURI
_build_typeURI(map, r, service_type) ==
    service_type \o typeURI_loop(map, Split(r.path), 1, None, <<>>)

\* target.add_address(e) for an endpoint that is not None
add_address(addresses, e) == IF IsNone(e) THEN addresses ELSE Append(addresses, TheValue(e))

\* OpenStackAuditApi._build_target
_build_target(map, r, service) ==
    [typeURI |-> IF service.type # UNKNOWN
                 THEN _build_typeURI(map, r, service.type)
                 ELSE service.type,
     id |-> service.id,
     name |-> service.name,
     addresses |-> add_address(add_address(add_address(<<>>, service.admin_endp),
                                           service.private_endp),
                               service.public_endp)]

\* the test of lines 253-254
host_matches(r, endp) ==
    LET endpoint_urls == endp.endpoints[1]
        admin == netloc(Get(endpoint_urls, "adminURL", <<>>))
        public == netloc(Get(endpoint_urls, "publicURL", <<>>))
        req_url == netloc(r.host_url)
    IN  req_url = admin \/ req_url = public

\* the test of lines 257-258
is_default_type(map, endp) ==
    /\ ~IsNone(map.default_target_endpoint_type)
    /\ Len(TheValue(map.default_target_endpoint_type)) > 0
    /\ endp.type = TheValue(map.default_target_endpoint_type)

RECURSIVE ScanCatalog_default_breaks(_, _, _, _, _)
\* ScanCatalog leaving the loop at the first entry of the default type
ScanCatalog_default_breaks(map, r, catalog, i, default_endpoint) ==
    IF i > Len(catalog) THEN default_endpoint
    ELSE IF host_matches(r, catalog[i]) THEN Some(catalog[i])
    ELSE IF is_default_type(map, catalog[i]) THEN Some(catalog[i])
    ELSE ScanCatalog_default_breaks(map, r, catalog, i + 1, default_endpoint)

RECURSIVE ScanCatalog_keeps_first(_, _, _, _, _)
\* ScanCatalog remembering only the first entry of the default type
ScanCatalog_keeps_first(map, r, catalog, i, default_endpoint) ==
    IF i > Len(catalog) THEN default_endpoint
    ELSE IF host_matches(r, catalog[i]) THEN Some(catalog[i])
    ELSE IF is_default_type(map, catalog[i]) /\ IsNone(default_endpoint)
    THEN ScanCatalog_keeps_first(map, r, catalog, i + 1, Some(catalog[i]))
    ELSE ScanCatalog_keeps_first(map, r, catalog, i + 1, default_endpoint)

RECURSIVE ScanCatalog(_, _, _, _, _)
\* the for ... else of lines 246-262 from entry i on: the entry the service
\* info is built from, None when it stays the unknown one
ScanCatalog(map, r, catalog, i, default_endpoint) ==
    IF i > Len(catalog) THEN default_endpoint
    ELSE IF host_matches(r, catalog[i]) THEN Some(catalog[i])
    ELSE IF is_default_type(map, catalog[i])
    THEN ScanCatalog(map, r, catalog, i + 1, Some(catalog[i]))
    ELSE ScanCatalog(map, r, catalog, i + 1, default_endpoint)

UnknownService == Service(UNKNOWN, UNKNOWN, UNKNOWN, None, None, None)

MISSING_CATALOG == "service catalog is missing"

\* the outcome of get_target_resource(req): the target returned or the
\* exception raised, and the warnings logged
get_target_resource_outcome(map, r) ==
    LET lit == literal_eval(r.environ)
    IN  IF lit.exc \notin {"none", "KeyError"}
        THEN [exc |-> lit.exc, value |-> NoTarget, logged |-> <<>>]
        ELSE LET catalog == IF lit.exc = "KeyError" THEN <<>> ELSE lit.value
                 chosen == ScanCatalog(map, r, catalog, 1, None)
                 service_info == IF IsNone(chosen) THEN UnknownService
                                 ELSE _get_service_info(map, TheValue(chosen))
             IN  [exc |-> "none",
                  value |-> _build_target(map, r, service_info),
                  logged |-> IF lit.exc = "KeyError" THEN <<MISSING_CATALOG>> ELSE <<>>]

PATH_S_ACTION == <<"/">> \o STR_S \o <<"/">> \o STR_ACTION

PATH_S_JSON_ACTION == STR_S \o JSON_SUFFIX \o <<"/">> \o STR_ACTION

SamplePaths == {PATH_S_ACTION, PATH_S_JSON_ACTION}

SampleEnvirons == {Environ("absent", <<>>), Environ("list", <<E1>>), Environ("list", <<E3, E4>>)}

TargetRequests ==
    {[method |-> M_GET, path |-> p, body |-> EmptyBody, host_url |-> h, environ |-> e] :
        p \in Paths, h \in {HOST_A, HOST_B}, e \in SampleEnvirons}
    \cup
    {[method |-> M_GET, path |-> p, body |-> EmptyBody, host_url |-> h, environ |-> e] :
        p \in SamplePaths, h \in {HOST_A, HOST_B}, e \in Environs}

InitTarget ==
    /\ pc = "ready"
    /\ py2 = FALSE
    /\ cfg_file = Some(MAP_FILE)
    /\ \E f \in SampleFiles :
          /\ fs = [exists |-> TRUE, lines |-> f]
          /\ MAP = InitOutcome(cfg_file, fs, py2).map
    /\ req \in TargetRequests
    /\ action = <<>>
    /\ target = NoTarget
    /\ exc = "none"
    /\ log = <<>>

\* OpenStackAuditApi.get_target_resource
get_target_resource ==
    /\ pc = "ready"
    /\ LET out == get_target_resource_outcome(MAP, req)
       IN  /\ exc' = out.exc
           /\ target' = out.value
           /\ log' = log \o out.logged
           /\ pc' = IF out.exc = "none" THEN "got_target" ELSE "raised"
    /\ UNCHANGED <<py2, cfg_file, fs, MAP, req, action>>

NextTarget == get_target_resource

SpecTarget == InitTarget /\ [][NextTarget]_vars

(***************************************************************************)
(* Properties of get_action.                                               *)
(***************************************************************************)
Called == pc \in {"got_action", "raised"}

\* s without its last character
ButLast(s) == SubSeq(s, 1, Len(s) - 1)

\* the final '/'-delimited segment of the path once one trailing '/' is
\* stripped, without its '.json' suffix
LastSegment(path) ==
    LET p == IF Len(path) > 0 /\ path[Len(path)] = "/" THEN ButLast(path) ELSE path
        segs == Split(p)
        last == segs[Len(segs)]
    IN  IF EndsWith(last, JSON_SUFFIX) THEN SubSeq(last, 1, Len(last) - Len(JSON_SUFFIX)) ELSE last

MethodKey == LastSegment(req.path) \o <<"/">> \o Lower(req.method)

NoCustomAction == /\ MethodKey \notin DOMAIN MAP.custom_actions
                  /\ LastSegment(req.path) \notin DOMAIN MAP.custom_actions

\* C1: once get_action has been called, if lastSegment + "/" + lowercase(method)
\* is a key of custom_actions the call returned that key's value; otherwise, if
\* lastSegment alone is a key, it returned that key's value.  The inference
\* from the method, path_keywords and the body plays no part in either case.
C1_CustomActionFirst ==
    Called =>
        /\ MethodKey \in DOMAIN MAP.custom_actions
              => pc = "got_action" /\ action = MAP.custom_actions[MethodKey]
        /\ (MethodKey \notin DOMAIN MAP.custom_actions
            /\ LastSegment(req.path) \in DOMAIN MAP.custom_actions)
              => pc = "got_action" /\ action = MAP.custom_actions[LastSegment(req.path)]

\* both keys exist with different values and the method key won over a POST
C1_Witness ==
    /\ pc = "got_action"
    /\ req.method = M_POST
    /\ MethodKey \in DOMAIN MAP.custom_actions
    /\ LastSegment(req.path) \in DOMAIN MAP.custom_actions
    /\ MAP.custom_actions[MethodKey] # MAP.custom_actions[LastSegment(req.path)]
    /\ action = STR_BOOT

\* the outcome of the call in this state
Outcome == [exc |-> exc, value |-> action]

\* C2 as stated: for every path p ending in '/', get_action on p gives what
\* get_action gives on p[:-1], also when p ends in more than one '/'.
C2_AnyTrailingSlash ==
    (Called /\ EndsWith(req.path, <<"/">>))
        => Outcome = get_action_outcome(MAP, [req EXCEPT !.path = ButLast(@)])

\* C2 amended: for every path p ending in exactly one '/' (p[:-1] does not end
\* in '/'), get_action on p gives what get_action gives on p[:-1].
C2_OneTrailingSlash ==
    (Called /\ EndsWith(req.path, <<"/">>) /\ ~EndsWith(ButLast(req.path), <<"/">>))
        => Outcome = get_action_outcome(MAP, [req EXCEPT !.path = ButLast(@)])

\* a GET of a path "<...>keyword/" was classified as a list
C2_Witness ==
    /\ pc = "got_action"
    /\ req.method = M_GET
    /\ Len(req.path) > 1
    /\ EndsWith(req.path, <<"/">>)
    /\ ~EndsWith(ButLast(req.path), <<"/">>)
    /\ NoCustomAction
    /\ LastSegment(req.path) \in DOMAIN MAP.path_kw
    /\ action = ACTION_LIST

\* C3: a POST whose lastSegment is "action" and that no custom action matches
\* never raises: a body that parses to a non-empty JSON object gives
\* "update/" + its first key, every other body gives "create".
C3_ActionBodyNeverRaises ==
    (Called /\ req.method = M_POST /\ LastSegment(req.path) = STR_ACTION /\ NoCustomAction)
        => /\ pc = "got_action"
           /\ action = IF req.body.kind = "dict" /\ Len(req.body.keys) > 0
                       THEN ACTION_UPDATE \o <<"/">> \o req.body.keys[1]
                       ELSE ACTION_CREATE

\* C4: when no custom action matches, get_action raises nothing and its result
\* is fixed by the method and by whether lastSegment is a path keyword: GET
\* list or read, POST (lastSegment not "action") create or update, PUT and
\* PATCH update, DELETE delete, HEAD read, any other method unknown.
C4_MethodInference ==
    (Called /\ NoCustomAction /\ ~(req.method = M_POST /\ LastSegment(req.path) = STR_ACTION))
        => /\ pc = "got_action"
           /\ LET known == LastSegment(req.path) \in DOMAIN MAP.path_kw
              IN  action = CASE req.method = M_GET -> IF known THEN ACTION_LIST ELSE ACTION_READ
                             [] req.method = M_POST -> IF known THEN ACTION_CREATE ELSE ACTION_UPDATE
                             [] req.method \in {M_PUT, M_PATCH} -> ACTION_UPDATE
                             [] req.method = M_DELETE -> ACTION_DELETE
                             [] req.method = M_HEAD -> ACTION_READ
                             [] OTHER -> UNKNOWN

\* a lower-case "post" on a path keyword, which is no POST, was classified unknown
C4_Witness ==
    /\ pc = "got_action"
    /\ NoCustomAction
    /\ req.method = <<"p","o","s","t">>
    /\ LastSegment(req.path) \in DOMAIN MAP.path_kw
    /\ action = UNKNOWN

(***************************************************************************)
(* Properties of get_target_resource.                                      *)
(***************************************************************************)
TheCatalog == req.environ.catalog

HasCatalog == req.environ.kind = "list"

\* the entry's first endpoint has an adminURL or a publicURL whose network
\* location is that of the request's host URL
SameHost(endp) ==
    \E k \in {"adminURL", "publicURL"} :
        netloc(IF k \in DOMAIN endp.endpoints[1] THEN endp.endpoints[1][k] ELSE <<>>)
            = netloc(req.host_url)

HostMatches == {i \in 1..Len(TheCatalog) : SameHost(TheCatalog[i])}

DefaultConfigured == /\ MAP.default_target_endpoint_type # None
                     /\ MAP.default_target_endpoint_type # Some(<<>>)

DefaultMatches == {i \in 1..Len(TheCatalog) :
                     DefaultConfigured /\ Some(TheCatalog[i].type) = MAP.default_target_endpoint_type}

Least(S) == CHOOSE i \in S : \A j \in S : i <= j

Greatest(S) == CHOOSE i \in S : \A j \in S : j <= i

BuiltFrom(endp) == _build_target(MAP, req, _get_service_info(MAP, endp))

\* C5: when some catalog entry matches the request host, the target is built
\* from the first such entry in catalog order, whatever entries of the
\* default type come before it.
C5_HostMatchWins ==
    (pc = "got_target" /\ HasCatalog /\ HostMatches # {})
        => target = BuiltFrom(TheCatalog[Least(HostMatches)])

\* an entry of the default type comes before the first host match, and the
\* target is the host match's
C5_Witness ==
    /\ pc = "got_target"
    /\ HasCatalog
    /\ HostMatches # {}
    /\ \E j \in DefaultMatches : j < Least(HostMatches)
    /\ TheCatalog[Least(DefaultMatches)].name # TheCatalog[Least(HostMatches)].name
    /\ target.name = TheCatalog[Least(HostMatches)].name

SeveralDefaults == /\ pc = "got_target"
                   /\ HasCatalog
                   /\ HostMatches = {}
                   /\ Cardinality(DefaultMatches) >= 2

\* C6 as stated: with no host match and several entries of the default type,
\* the target is built from the first of them in catalog order.
C6_FirstDefaultEntry ==
    SeveralDefaults => target = BuiltFrom(TheCatalog[Least(DefaultMatches)])

\* C6 amended: with no host match and several entries of the default type,
\* the target is built from the last of them in catalog order.
C6_LastDefaultEntry ==
    SeveralDefaults => target = BuiltFrom(TheCatalog[Greatest(DefaultMatches)])

\* two different entries of the default type, and the target is the later one's
C6_Witness ==
    /\ SeveralDefaults
    /\ TheCatalog[Least(DefaultMatches)] # TheCatalog[Greatest(DefaultMatches)]
    /\ target.name = TheCatalog[Greatest(DefaultMatches)].name

UnknownTarget == [typeURI |-> UNKNOWN, id |-> UNKNOWN, name |-> UNKNOWN, addresses |-> <<>>]

\* C7: with the catalog absent, empty or unparseable, get_target_resource
\* returns the all-unknown target without addresses, and it has logged a
\* warning when the catalog is absent.
C7_CatalogNeverFatal ==
    (/\ pc \in {"got_target", "raised"}
     /\ \/ req.environ.kind \in {"absent", "empty_string", "malformed", "non_literal"}
        \/ HasCatalog /\ TheCatalog = <<>>)
        => /\ pc = "got_target"
           /\ target = UnknownTarget
           /\ req.environ.kind = "absent" => log = <<MISSING_CATALOG>>

\* the entry the service info comes from: the first host match, else the last
\* entry of the default type, else none
Selected == IF ~HasCatalog THEN None
            ELSE IF HostMatches # {} THEN Some(TheCatalog[Least(HostMatches)])
            ELSE IF DefaultMatches # {} THEN Some(TheCatalog[Greatest(DefaultMatches)])
            ELSE None

ResolvedType == IF Selected = None THEN UNKNOWN
                ELSE IF Selected[1].type \in DOMAIN MAP.service_endpoints
                THEN MAP.service_endpoints[Selected[1].type]
                ELSE UNKNOWN

NoJson(seg) == IF EndsWith(seg, JSON_SUFFIX) THEN SubSeq(seg, 1, Len(seg) - Len(JSON_SUFFIX)) ELSE seg

Segments == LET raw == Split(req.path) IN [i \in 1..Len(raw) |-> NoJson(raw[i])]

\* what segment i adds to the typeURI
Added(i) == IF Segments[i] \in DOMAIN MAP.path_kw THEN <<"/">> \o Segments[i]
            ELSE IF i > 1 /\ Segments[i - 1] \in DOMAIN MAP.path_kw
            THEN <<"/">> \o MAP.path_kw[Segments[i - 1]]
            ELSE <<>>

\* C9: the typeURI is "unknown" when the resolved service type is "unknown",
\* whatever the path; otherwise it is the service type followed, segment by
\* segment, by "/" + segment for a path keyword, else by "/" +
\* path_keywords[previous segment] when the previous segment is a keyword.
C9_TypeURI ==
    pc = "got_target"
        => target.typeURI = IF ResolvedType = UNKNOWN THEN UNKNOWN
                            ELSE ResolvedType \o Concat([i \in 1..Len(Segments) |-> Added(i)])

\* a keyword with a '.json' suffix followed by an instance segment
C9_Witness ==
    /\ pc = "got_target"
    /\ Len(Segments) = 2
    /\ EndsWith(Split(req.path)[1], JSON_SUFFIX)
    /\ Segments[1] = STR_S
    /\ Segments[2] \notin DOMAIN MAP.path_kw
    /\ Len(Segments[2]) > 0
    /\ target.typeURI = STR_SVC \o <<"/">> \o STR_S \o <<"/">> \o STR_R

FieldOr(d, k, default) == IF k \in DOMAIN d THEN d[k] ELSE default

\* C10: a returned target has no address exactly when no entry was selected;
\* otherwise it has the three addresses admin, private, public in this order,
\* from the selected entry's first endpoint's adminURL, internalURL and
\* publicURL ("unknown" for an absent one), its id is that endpoint's id, or
\* the entry's name without one, and its name is the entry's name.
C10_Addresses ==
    pc = "got_target"
        => /\ Len(target.addresses) \in {0, 3}
           /\ Len(target.addresses) = 0 <=> Selected = None
           /\ Selected # None =>
                 LET e == Selected[1]
                     ep == e.endpoints[1]
                 IN  /\ target.addresses =
                            <<[name |-> "admin", url |-> FieldOr(ep, "adminURL", UNKNOWN)],
                              [name |-> "private", url |-> FieldOr(ep, "internalURL", UNKNOWN)],
                              [name |-> "public", url |-> FieldOr(ep, "publicURL", UNKNOWN)]>>
                     /\ target.id = FieldOr(ep, "id", e.name)
                     /\ target.name = e.name

\* the selected entry's endpoint has neither id nor publicURL
C10_Witness ==
    /\ pc = "got_target"
    /\ Selected # None
    /\ "id" \notin DOMAIN Selected[1].endpoints[1]
    /\ "adminURL" \in DOMAIN Selected[1].endpoints[1]
    /\ target.id = Selected[1].name
    /\ Len(target.addresses) = 3
    /\ target.addresses[3].url = UNKNOWN

(***************************************************************************)
(* Properties of the construction.                                         *)
(***************************************************************************)
\* C8: construction from the path of a nonexistent file and from the path of
\* an empty file both succeed with the all-empty configuration, and a
\* construction that fails fails with PycadfAuditApiConfigError.
C8_MissingFileIsEmptyConfig ==
    /\ (pc # "new" /\ cfg_file # None /\ (~fs.exists \/ fs.lines = <<>>))
          => pc = "ready" /\ MAP = EmptyMap
    /\ pc = "raised" => exc = "PycadfAuditApiConfigError"

====
